---- MODULE Spec2Model ----
(***************************************************************************)
(* Conversation / messaging synchronisation layer of meowgram-native.      *)
(*                                                                         *)
(*   conversationService (src/unnamed/part_014)  - the repository          *)
(*   ChatContext         (src/src/contexts/ChatContext.tsx) - orchestrator *)
(*   chatUtils           (src/src/services/chatUtils.ts)                   *)
(*                                                                         *)
(* Strings that are compared or concatenated by the code (user ids,        *)
(* conversation ids) are sequences of UTF-16 code units.                   *)
(***************************************************************************)
EXTENDS Integers, Sequences, FiniteSets, TLC

(***************************************************************************)
(* Bounds of the model                                                     *)
(***************************************************************************)
\* longest id drawn as an input of createConversationId
MaxIdLen == 2
\* most documents in a snapshot handed to the projection of
\* subscribeToUserConversations
MaxSnapDocs == 3
\* largest lastMessageTimestamp of a document of such a snapshot
MaxSnapTs == 2

(***************************************************************************)
(* Strings                                                                 *)
(***************************************************************************)
\* code units used in ids: "A", "_", "a"
CodeUnits == {65, 95, 97}
Underscore == <<95>>

RECURSIVE SeqsUpTo(_)
SeqsUpTo(n) ==
    IF n = 0 THEN {<<>>}
    ELSE LET shorter == SeqsUpTo(n - 1)
         IN shorter \cup {Append(s, c) : s \in {t \in shorter : Len(t) = n - 1}, c \in CodeUnits}

Ids == SeqsUpTo(MaxIdLen) \ {<<>>}

\* a < b in the order of Array.prototype.sort() without comparator:
\* by UTF-16 code units, a proper prefix first
RECURSIVE StrLess(_, _)
StrLess(a, b) ==
    IF b = <<>> THEN FALSE
    ELSE IF a = <<>> THEN TRUE
    ELSE IF Head(a) # Head(b) THEN Head(a) < Head(b)
    ELSE StrLess(Tail(a), Tail(b))

\* [x, y].sort(): stable, the pair is swapped only when y sorts before x
SortPair(x, y) == IF StrLess(y, x) THEN <<y, x>> ELSE <<x, y>>

\* arr.join("_") of a two-element array
JoinPair(p) == p[1] \o Underscore \o p[2]

\* the id without the sort: what a caller passing the ids as given would get
CreateConversationIdUnsorted(userId1, userId2) == JoinPair(<<userId1, userId2>>)

\* chatUtils.createConversationId
CreateConversationId(userId1, userId2) == JoinPair(SortPair(userId1, userId2))

\* the conversationId computed in createConversation
CreateConversationDocId(currentUserId, otherUserId) ==
    JoinPair(SortPair(currentUserId, otherUserId))

\* the conversationId computed in getOrCreateConversation
GetOrCreateConversationDocId(currentUserId, otherUserId) ==
    JoinPair(SortPair(currentUserId, otherUserId))

(***************************************************************************)
(* Bounds of the store model                                               *)
(***************************************************************************)
\* largest value of Date.now() (the clock stops advancing there)
MaxClock == 2
\* most message documents ever created
MaxMsgs == 2

(***************************************************************************)
(* Values                                                                  *)
(***************************************************************************)
UserA == <<65>>
UserB == <<66>>
\* a third account: a participant of conversations that runs no client here
UserC == <<67>>
Users == {UserA, UserB}
OtherUser(u) == IF u = UserA THEN UserB ELSE UserA

NoUser == <<>>
NoConv == <<>>
NoMsg == 0
NoTime == -1

\* no ChatDetailScreen is mounted
NoScreen == [conversationId |-> NoConv, back |-> FALSE]

\* message texts, as code units: "", "h" (a sent text), "e" (an edited text)
EmptyText == <<>>
HelloText == <<104>>
EditedText == <<101>>
\* the literal "[Message deleted]" of deleteMessage
Tombstone == <<91, 100, 93>>
\* text.substring(0, 50) in sendMessage
PreviewLen == 50
Substring(text, n) == SubSeq(text, 1, IF Len(text) < n THEN Len(text) ELSE n)

EmptyFn == [x \in {} |-> 0]

VARIABLES
    \* inputs and results of the id computations
    userId1, userId2, idResult,
    \* a snapshot of the conversations query, the user it was opened for, and
    \* what subscribeToUserConversations passed to its callback for it
    snapDocs, snapUser, delivered,
    \* Date.now()
    clock,
    \* collection "conversations": document id -> document
    convs,
    \* sub-collections "conversations/{id}/messages": message id -> document
    msgs,
    \* number of message ids generated so far
    msgCount,
    \* collection "conversationUsers": the <<userId, conversationId>> of the
    \* documents with id `${userId}_${conversationId}`
    conversationUsers,
    \* collection "typingIndicators" of one conversation: userId -> timestamp
    typingIndicators,
    \* a listener of listenToTypingIndicators: whether it is open and whether
    \* a change of the query's result has not been delivered to it yet
    typingSub,
    \* useTypingIndicators: typingUsers, as userId -> timestamp
    typingUsers,
    \* getOrCreateConversation call of each client
    goc,
    \* sendMessage call of each client
    send,
    \* the markConversationAsRead calls made by the messages effect
    mcr,
    \* the call of each client to another operation of the repository
    \* (deleteConversation, clearConversationMessages, ...)
    repoCall,
    \* the markMessageAsRead calls of the message list whose updateDoc has not
    \* reached the store yet
    markReads,
    \* ChatProvider: useAuth().user (its uid) and the useState values
    user, conversations, selectedConversation, conversationsLoading,
    conversationsError, forceRefresh, messages, messagesLoading, messagesError,
    \* ChatProvider: userProfileRef.current (the uid of the cached profile)
    userProfileRef,
    \* ChatProvider: the closures of the runs of the conversations effect
    loads,
    \* the subscriptions opened by the messages effect, and
    \* messagesUnsubscribeRef.current (an index into them, 0 for null)
    msgSubs, messagesUnsubscribeRef,
    \* what the caller of the last action of the context saw: the outcome is
    \* "rejected" (it threw before any write) or "issued" (the write was made)
    lastCall,
    \* the ChatDetailScreen on the navigation stack: its route parameter and
    \* whether its back handler has run, or NoScreen
    chatDetail

idVars == <<userId1, userId2, idResult, snapDocs, snapUser, delivered>>
storeVars == <<clock, convs, msgs, msgCount, conversationUsers>>
callVars == <<goc, send, mcr, repoCall, markReads>>
typingVars == <<typingIndicators, typingSub, typingUsers>>
convStateVars == <<conversations, conversationsLoading, conversationsError>>
msgStateVars == <<messages, messagesLoading, messagesError>>
ctxVars == <<user, conversations, selectedConversation, conversationsLoading,
             conversationsError, forceRefresh, messages, messagesLoading,
             messagesError, userProfileRef, loads, msgSubs,
             messagesUnsubscribeRef, lastCall, chatDetail>>
vars == <<userId1, userId2, idResult, snapDocs, snapUser, delivered, clock,
          convs, msgs, msgCount, conversationUsers, typingIndicators, typingSub,
          typingUsers, goc, send, mcr, repoCall, markReads,
          user, conversations,
          selectedConversation, conversationsLoading, conversationsError,
          forceRefresh, messages, messagesLoading, messagesError,
          userProfileRef, loads, msgSubs, messagesUnsubscribeRef, lastCall,
          chatDetail>>

(***************************************************************************)
(* createConversationId and its two inline copies                          *)
(***************************************************************************)
NoResult == [computed |-> FALSE]

NotDelivered == [called |-> FALSE]

IdleSnapshot ==
    /\ snapDocs = <<>>
    /\ snapUser = UserA
    /\ delivered = NotDelivered

InitIdInputs ==
    /\ userId1 \in Ids
    /\ userId2 \in Ids
    /\ idResult = NoResult
    /\ IdleSnapshot

IdleIds ==
    /\ userId1 = UserA
    /\ userId2 = UserB
    /\ idResult = NoResult

IdleIdInputs ==
    /\ IdleIds
    /\ IdleSnapshot

\* evaluates the three computations on (userId1, userId2) and on the swapped pair
ComputeIds ==
    /\ ~idResult.computed
    /\ idResult' = [computed |-> TRUE,
                    util |-> CreateConversationId(userId1, userId2),
                    utilSwapped |-> CreateConversationId(userId2, userId1),
                    create |-> CreateConversationDocId(userId1, userId2),
                    createSwapped |-> CreateConversationDocId(userId2, userId1),
                    getOrCreate |-> GetOrCreateConversationDocId(userId1, userId2),
                    getOrCreateSwapped |-> GetOrCreateConversationDocId(userId2, userId1)]
    /\ UNCHANGED <<userId1, userId2, snapDocs, snapUser, delivered, storeVars, callVars,
                   ctxVars, typingVars>>

(***************************************************************************)
(* The projection of subscribeToUserConversations                          *)
(***************************************************************************)
\* the .filter(...) callback without the deletedBy test
KeepConversationIgnoringDeletedBy(conv, userId) == ~conv.isArchived

\* the .filter(...) callback: a missing deletedBy is the empty set here
KeepConversation(conv, userId) ==
    IF conv.isArchived THEN FALSE
    ELSE IF userId \in conv.deletedBy THEN FALSE
    ELSE TRUE

RECURSIVE FilterConversations(_, _)
FilterConversations(list, userId) ==
    IF list = <<>> THEN <<>>
    ELSE IF KeepConversation(Head(list), userId)
         THEN <<Head(list)>> \o FilterConversations(Tail(list), userId)
         ELSE FilterConversations(Tail(list), userId)

\* the comparator (a, b) => b.lastMessageTimestamp - a.lastMessageTimestamp
CompareByTimestampDesc(a, b) == b.lastMessageTimestamp - a.lastMessageTimestamp

\* x put into a list sorted by the comparator, after the elements it does not
\* sort before (Array.prototype.sort is stable)
RECURSIVE InsertSorted(_, _)
InsertSorted(x, sorted) ==
    IF sorted = <<>> THEN <<x>>
    ELSE IF CompareByTimestampDesc(x, Head(sorted)) < 0
         THEN <<x>> \o sorted
         ELSE <<Head(sorted)>> \o InsertSorted(x, Tail(sorted))

RECURSIVE SortConversations(_)
SortConversations(list) ==
    IF list = <<>> THEN <<>>
    ELSE InsertSorted(list[Len(list)], SortConversations(SubSeq(list, 1, Len(list) - 1)))

\* snapshot.docs.map((doc) => ({ id: doc.id, ...doc.data() }))
MapWithIds(docs) ==
    [i \in 1..Len(docs) |-> [id |-> docs[i].id] @@ docs[i].data]

\* snapshot.docs.map(...).filter(...).sort(...) of the onSnapshot callback
ProjectUserConversations(docs, userId) ==
    SortConversations(FilterConversations(MapWithIds(docs), userId))

\* the data of a document a snapshot may hold
SnapDocData ==
    [isArchived : BOOLEAN, deletedBy : SUBSET Users,
     lastMessageTimestamp : 0..MaxSnapTs]

\* the snapshots of at most MaxSnapDocs documents
IsSnapshot(data) == \E n \in 0..MaxSnapDocs : data \in [1..n -> SnapDocData]

\* snapshot.docs of a snapshot holding the given data: the document id of a
\* document is its position in document-id order
SnapshotDocs(data) == [i \in 1..Len(data) |-> [id |-> i, data |-> data[i]]]

InitSnapshot ==
    /\ IsSnapshot(snapDocs)
    /\ snapUser \in Users
    /\ delivered = NotDelivered

\* the onSnapshot callback of subscribeToUserConversations runs on snapDocs
DeliverSnapshot ==
    /\ ~delivered.called
    /\ delivered' = [called |-> TRUE,
                     list |-> ProjectUserConversations(SnapshotDocs(snapDocs), snapUser)]
    /\ UNCHANGED <<userId1, userId2, idResult, snapDocs, snapUser, storeVars, callVars,
                   ctxVars, typingVars>>

\* no typing indicator; the listener is open and has nothing to deliver
NoTyping ==
    /\ typingIndicators = EmptyFn
    /\ typingSub = [open |-> TRUE, pending |-> FALSE]
    /\ typingUsers = EmptyFn

(***************************************************************************)
(* The remote store                                                        *)
(***************************************************************************)
EmptyStore ==
    /\ clock = 0
    /\ convs = EmptyFn
    /\ msgs = EmptyFn
    /\ msgCount = 0
    /\ conversationUsers = {}
    /\ NoTyping

\* a conversation document written by a legacy path: no participantDetails
LegacyConversation(u, o) ==
    [participants |-> <<u, o>>, hasDetails |-> FALSE, details |-> {},
     lastMessage |-> NoMsg, lastMessageText |-> EmptyText,
     lastMessageTimestamp |-> 0, unreadCount |-> 0,
     isArchived |-> FALSE, deletedBy |-> {}]

\* Date.now() advances
Tick ==
    /\ clock < MaxClock
    /\ clock' = clock + 1
    /\ UNCHANGED <<idVars, convs, msgs, msgCount, callVars, ctxVars, conversationUsers,
                   typingVars>>

MessagesOf(conversationId) ==
    {m \in DOMAIN msgs : msgs[m].conversationId = conversationId}

(***************************************************************************)
(* createConversation / getOrCreateConversation                            *)
(***************************************************************************)
IdleCall == [pc |-> "idle"]

\* conversationData of createConversation
ConversationData(currentUserId, otherUserId, now) ==
    [participants |-> <<currentUserId, otherUserId>>,
     hasDetails |-> TRUE, details |-> {currentUserId, otherUserId},
     lastMessage |-> NoMsg, lastMessageText |-> EmptyText,
     lastMessageTimestamp |-> now, unreadCount |-> 0,
     isArchived |-> FALSE, deletedBy |-> {}]

\* a write that succeeds only when the document does not exist yet
CreateConversationWriteIfAbsent(docs, conversationId, conversationData) ==
    IF conversationId \in DOMAIN docs
    THEN [ok |-> FALSE, docs |-> docs]
    ELSE [ok |-> TRUE, docs |-> (conversationId :> conversationData) @@ docs]

\* setDoc(doc(db, "conversations", conversationId), conversationData):
\* replaces the document whether or not it exists
CreateConversationWrite(docs, conversationId, conversationData) ==
    [ok |-> TRUE, docs |-> (conversationId :> conversationData) @@ docs]

\* getOrCreateConversation(u, o, ...) runs up to await getDoc(...)
GetOrCreateConversationCall(u, o) ==
    /\ goc[u].pc \in {"idle", "done", "failed"}
    /\ goc' = [goc EXCEPT ![u] =
                 [pc |-> "read", other |-> o,
                  id |-> GetOrCreateConversationDocId(u, o)]]

\* a client calls getOrCreateConversation for the other user of the pair
GocCall(u) ==
    /\ GetOrCreateConversationCall(u, OtherUser(u))
    /\ UNCHANGED <<idVars, storeVars, send, mcr, repoCall, ctxVars, typingVars, markReads>>

\* await getDoc(...) returns; the continuation runs up to its next await
GocRead(u) ==
    /\ goc[u].pc = "read"
    /\ LET id == goc[u].id
       IN IF id \in DOMAIN convs
          THEN IF ~convs[id].hasDetails
               THEN goc' = [goc EXCEPT ![u] = [pc |-> "repair", other |-> @.other, id |-> id]]
               ELSE goc' = [goc EXCEPT ![u] =
                              [pc |-> "done", other |-> @.other, id |-> id,
                               path |-> "existing"]]
          ELSE goc' = [goc EXCEPT ![u] =
                         [pc |-> "create", other |-> @.other,
                          id |-> CreateConversationDocId(u, @.other),
                          data |-> ConversationData(u, @.other, clock)]]
    /\ UNCHANGED <<idVars, storeVars, send, mcr, repoCall, ctxVars, typingVars, markReads>>

\* createConversation's setDoc reaches the store
GocCreate(u) ==
    /\ goc[u].pc = "create"
    /\ LET w == CreateConversationWrite(convs, goc[u].id, goc[u].data)
       IN /\ convs' = w.docs
          /\ goc' = [goc EXCEPT ![u] =
                       IF w.ok
                       THEN [pc |-> "done", other |-> @.other, id |-> @.id,
                             path |-> "created"]
                       ELSE [pc |-> "failed", other |-> @.other, id |-> @.id]]
    /\ UNCHANGED <<idVars, clock, msgs, msgCount, send, mcr, repoCall, ctxVars,
                   conversationUsers, typingVars, markReads>>

\* setDoc(..., {participantDetails}, {merge: true}) of the repair path
GocRepair(u) ==
    /\ goc[u].pc = "repair"
    /\ convs' = [convs EXCEPT ![goc[u].id] =
                   [@ EXCEPT !.hasDetails = TRUE, !.details = {u, goc[u].other}]]
    /\ goc' = [goc EXCEPT ![u] = [pc |-> "reread", other |-> @.other, id |-> @.id]]
    /\ UNCHANGED <<idVars, clock, msgs, msgCount, send, mcr, repoCall, ctxVars,
                   conversationUsers, typingVars, markReads>>

\* the second getDoc of the repair path
GocReread(u) ==
    /\ goc[u].pc = "reread"
    /\ goc' = [goc EXCEPT ![u] =
                 [pc |-> "done", other |-> @.other, id |-> @.id,
                  path |-> "repaired"]]
    /\ UNCHANGED <<idVars, storeVars, send, mcr, repoCall, ctxVars, typingVars, markReads>>

(***************************************************************************)
(* sendMessage                                                             *)
(***************************************************************************)
\* a messageData that marks the message as read by everyone
MessageDataMarkedRead(messageId, conversationId, senderId, senderName, text, hasMedia, now) ==
    [id |-> messageId, conversationId |-> conversationId,
     senderId |-> senderId, senderName |-> senderName,
     text |-> text, hasMedia |-> hasMedia, timestamp |-> now,
     isRead |-> TRUE, readBy |-> [u \in Users |-> now],
     editedAt |-> NoTime, deletedAt |-> NoTime]

\* messageData of sendMessage
MessageData(messageId, conversationId, senderId, senderName, text, hasMedia, now) ==
    [id |-> messageId, conversationId |-> conversationId,
     senderId |-> senderId, senderName |-> senderName,
     text |-> text, hasMedia |-> hasMedia, timestamp |-> now,
     isRead |-> FALSE, readBy |-> (senderId :> now),
     editedAt |-> NoTime, deletedAt |-> NoTime]

\* sendMessage runs up to await Promise.all([...]): both writes are issued
SendMessageCall(u, conversationId, senderName, text, hasMedia) ==
    /\ send[u].pc \in {"idle", "done", "failed"}
    /\ msgCount < MaxMsgs
    /\ msgCount' = msgCount + 1
    /\ send' = [send EXCEPT ![u] =
                  [pc |-> "writing", conv |-> conversationId,
                   msg |-> MessageData(msgCount + 1, conversationId, u, senderName,
                                       text, hasMedia, clock),
                   pending |-> {"message", "conversation"}]]

\* Promise.all settles when no write is pending: sendMessage has returned, or
\* has thrown when a write was rejected
SendAfterWrite(u, write) ==
    LET left == send[u].pending \ {write}
    IN send' = [send EXCEPT ![u] =
                  IF left # {} THEN [@ EXCEPT !.pending = left]
                  ELSE IF "rejected" \in DOMAIN send[u]
                       THEN [pc |-> "failed", conv |-> @.conv, msg |-> @.msg]
                       ELSE [pc |-> "done"]]

\* setDoc(doc(messagesRef, messageId), messageData) reaches the store
SendWriteMessage(u) ==
    /\ send[u].pc = "writing"
    /\ "message" \in send[u].pending
    /\ msgs' = (send[u].msg.id :> send[u].msg) @@ msgs
    /\ SendAfterWrite(u, "message")
    /\ UNCHANGED <<idVars, clock, convs, msgCount, goc, mcr, repoCall, ctxVars,
                   conversationUsers, typingVars, markReads>>

\* a merge that also counts the message as unread
SummaryMergeCountingUnread(doc, m) ==
    [doc EXCEPT !.lastMessage = m.id,
                !.lastMessageText = Substring(m.text, PreviewLen),
                !.lastMessageTimestamp = m.timestamp,
                !.unreadCount = @ + 1]

\* the merge written to the conversation document by sendMessage
SummaryMerge(doc, m) ==
    [doc EXCEPT !.lastMessage = m.id,
                !.lastMessageText = Substring(m.text, PreviewLen),
                !.lastMessageTimestamp = m.timestamp]

\* setDoc(conversationRef, {lastMessage, ...}, {merge: true}) reaches the store
SendWriteConversation(u) ==
    /\ send[u].pc = "writing"
    /\ "conversation" \in send[u].pending
    /\ convs' = [convs EXCEPT ![send[u].conv] = SummaryMerge(@, send[u].msg)]
    /\ SendAfterWrite(u, "conversation")
    /\ UNCHANGED <<idVars, clock, msgs, msgCount, goc, mcr, repoCall, ctxVars,
                   conversationUsers, typingVars, markReads>>

\* what sendMessage's call holds once the write of the conversation has been
\* rejected: Promise.all has rejected, the catch block rethrows to the caller,
\* and the write of the message, if still pending, stays issued
SendRejected(call) ==
    IF "message" \in call.pending
    THEN [pc |-> "writing", conv |-> call.conv, msg |-> call.msg,
          pending |-> {"message"}, rejected |-> TRUE]
    ELSE [pc |-> "failed", conv |-> call.conv, msg |-> call.msg]

\* a rejection after which the message document is removed again
SendFailConversationRollingBack(u) ==
    /\ send[u].pc = "writing"
    /\ "conversation" \in send[u].pending
    /\ send' = [send EXCEPT ![u] = [pc |-> "failed", conv |-> @.conv, msg |-> @.msg]]
    /\ msgs' = [m \in DOMAIN msgs \ {send[u].msg.id} |-> msgs[m]]
    /\ UNCHANGED <<idVars, clock, convs, msgCount, goc, mcr, repoCall, ctxVars,
                   conversationUsers, typingVars, markReads>>

\* setDoc(conversationRef, {lastMessage, ...}, {merge: true}) is rejected
SendFailConversation(u) ==
    /\ send[u].pc = "writing"
    /\ "conversation" \in send[u].pending
    /\ send' = [send EXCEPT ![u] = SendRejected(@)]
    /\ UNCHANGED <<idVars, storeVars, goc, mcr, repoCall, ctxVars, typingVars, markReads>>

\* a client calls the repository's sendMessage on an existing conversation
RepoSend(u) ==
    \E conversationId \in DOMAIN convs, text \in {EmptyText, HelloText} :
        /\ SendMessageCall(u, conversationId, u, text, FALSE)
        /\ UNCHANGED <<idVars, clock, convs, msgs, goc, mcr, repoCall, ctxVars,
                       conversationUsers, typingVars, markReads>>


(***************************************************************************)
(* Bounds of the model of ChatProvider                                     *)
(***************************************************************************)
\* most runs of the conversations effect that subscribe
MaxLoads == 2
\* most subscriptions opened by the messages effect
MaxMsgSubs == 2
\* most calls of refreshConversations
MaxRefresh == 1

(***************************************************************************)
(* Queries                                                                 *)
(***************************************************************************)
\* the ids of a set in the order of document ids
RECURSIVE IdsInOrder(_)
IdsInOrder(S) ==
    IF S = {} THEN <<>>
    ELSE LET first == CHOOSE x \in S : \A y \in S \ {x} : StrLess(x, y)
         IN <<first>> \o IdsInOrder(S \ {first})

\* snapshot.docs of query(collection(db, "conversations"),
\*                        where("participants", "array-contains", userId))
QueryUserConversations(userId) ==
    LET ids == IdsInOrder({id \in DOMAIN convs :
                   userId \in {convs[id].participants[1], convs[id].participants[2]}})
    IN [i \in 1..Len(ids) |-> [id |-> ids[i], data |-> convs[ids[i]]]]

\* pageSize of subscribeToConversationMessages
PageSize == 50

\* message ids ordered by timestamp, then by document id
RECURSIVE MessagesInOrder(_)
MessagesInOrder(S) ==
    IF S = {} THEN <<>>
    ELSE LET first == CHOOSE x \in S : \A y \in S \ {x} :
                          \/ msgs[x].timestamp < msgs[y].timestamp
                          \/ msgs[x].timestamp = msgs[y].timestamp /\ x < y
         IN <<first>> \o MessagesInOrder(S \ {first})

\* snapshot.docs.map((doc) => doc.data()) of
\* query(messages, orderBy("timestamp", "asc"), limit(pageSize))
QueryConversationMessages(conversationId, pageSize) ==
    LET ids == MessagesInOrder(MessagesOf(conversationId))
        n == IF Len(ids) < pageSize THEN Len(ids) ELSE pageSize
    IN [i \in 1..n |-> msgs[ids[i]]]

(***************************************************************************)
(* deleteConversation and the listeners of the conversations query         *)
(***************************************************************************)
\* deleteConversation(conversationId, u) runs up to await updateDoc(...)
DeleteConversationCall(u, conversationId) ==
    /\ repoCall[u].pc \in {"idle", "done", "failed"}
    /\ repoCall' = [repoCall EXCEPT ![u] =
                      [pc |-> "writing", name |-> "deleteConversation",
                       id |-> conversationId]]
    /\ UNCHANGED <<idVars, storeVars, goc, send, mcr, ctxVars, typingVars, markReads>>

\* updateDoc(conversation, {deletedBy: arrayUnion(u), updatedAt}) reaches the
\* store: it fails when the document does not exist
DeleteConversationWrite(u) ==
    /\ repoCall[u].pc = "writing"
    /\ repoCall[u].name = "deleteConversation"
    /\ IF repoCall[u].id \in DOMAIN convs
       THEN /\ convs' = [convs EXCEPT ![repoCall[u].id].deletedBy = @ \cup {u}]
            /\ repoCall' = [repoCall EXCEPT ![u].pc = "done"]
       ELSE /\ repoCall' = [repoCall EXCEPT ![u].pc = "failed"]
            /\ UNCHANGED convs
    /\ UNCHANGED <<idVars, clock, msgs, msgCount, goc, send, mcr, ctxVars,
                   conversationUsers, typingVars, markReads>>

\* the conversations whose deleteConversation call by u has completed
DeletedBy(u) ==
    IF repoCall[u].pc = "done" /\ repoCall[u].name = "deleteConversation"
    THEN {repoCall[u].id} ELSE {}

\* the listener subscribeToUserConversations(u, callback) delivers a snapshot
\* of the store: callback gets the projected list; recorded with it are the
\* deleteConversation calls as they stood then
UserConversationsSnapshot(u) ==
    /\ snapUser' = u
    /\ delivered' = [called |-> TRUE,
                     list |-> ProjectUserConversations(QueryUserConversations(u), u),
                     calls |-> repoCall]
    /\ UNCHANGED <<userId1, userId2, idResult, snapDocs, storeVars, callVars, ctxVars,
                   typingVars>>

(***************************************************************************)
(* clearConversationMessages                                               *)
(***************************************************************************)
\* a client calls clearConversationMessages(conversationId)
ClearConversationMessagesCall(u, conversationId) ==
    /\ repoCall[u].pc \in {"idle", "done", "failed"}
    /\ repoCall' = [repoCall EXCEPT ![u] =
                      [pc |-> "read", name |-> "clearConversationMessages",
                       id |-> conversationId]]
    /\ UNCHANGED <<idVars, storeVars, goc, send, mcr, ctxVars, typingVars, markReads>>

\* await getDocs(messagesRef) returns the documents of the sub-collection
ClearRead(u) ==
    /\ repoCall[u].pc = "read"
    /\ repoCall[u].name = "clearConversationMessages"
    /\ repoCall' = [repoCall EXCEPT ![u] =
                      [pc |-> "commit", name |-> @.name, id |-> @.id,
                       docs |-> MessagesOf(@.id)]]
    /\ UNCHANGED <<idVars, storeVars, goc, send, mcr, ctxVars, typingVars, markReads>>

\* a batch that deletes the documents and leaves the conversation as it is
ClearBatchKeepingSummary(conversationId, docs, now) ==
    [convs |-> convs,
     msgs |-> [m \in DOMAIN msgs \ docs |-> msgs[m]]]

\* the writes of the batch: a delete for each document read, and
\* update(conversation, {lastMessage: null, lastMessageTimestamp: Date.now(), updatedAt})
ClearBatch(conversationId, docs, now) ==
    [convs |-> [convs EXCEPT ![conversationId].lastMessage = NoMsg,
                             ![conversationId].lastMessageText = EmptyText,
                             ![conversationId].lastMessageTimestamp = now],
     msgs |-> [m \in DOMAIN msgs \ docs |-> msgs[m]]]

\* await batch.commit(): all of the batch or, when the conversation document
\* does not exist, nothing
ClearCommit(u) ==
    /\ repoCall[u].pc = "commit"
    /\ repoCall[u].name = "clearConversationMessages"
    /\ IF repoCall[u].id \in DOMAIN convs
       THEN LET b == ClearBatch(repoCall[u].id, repoCall[u].docs, clock)
            IN /\ convs' = b.convs
               /\ msgs' = b.msgs
               /\ repoCall' = [repoCall EXCEPT ![u].pc = "done"]
       ELSE /\ repoCall' = [repoCall EXCEPT ![u].pc = "failed"]
            /\ UNCHANGED <<convs, msgs>>
    /\ UNCHANGED <<idVars, clock, msgCount, conversationUsers, goc, send, mcr, ctxVars,
                   typingVars, markReads>>

(***************************************************************************)
(* What the message list and the conversation list render                  *)
(***************************************************************************)
\* the literals "No messages yet" and "..." of getMessagePreview
NoMessagesYet == <<78>>
Ellipsis == <<46, 46, 46>>

\* isMessageDeleted(message): !!message.deletedAt
IsMessageDeleted(message) == message.deletedAt # NoTime /\ message.deletedAt # 0

\* the main text of renderMessage
RenderMessage(message) ==
    IF IsMessageDeleted(message) THEN Tombstone ELSE message.text

\* getMessagePreview(message) of a message that is not null; the lastMessage
\* objects written by sendMessage have no mediaUrls
GetMessagePreview(message) ==
    IF IsMessageDeleted(message)
    THEN Tombstone
    ELSE IF Len(message.text) > PreviewLen
         THEN Substring(message.text, PreviewLen) \o Ellipsis
         ELSE message.text

\* getMessagePreview(item.lastMessage) of the conversation list: lastMessage
\* is null or the {id, text, senderId, senderName} written by sendMessage,
\* which has no deletedAt
ConversationPreview(conv) ==
    IF conv.lastMessage = NoMsg
    THEN NoMessagesYet
    ELSE GetMessagePreview([id |-> conv.lastMessage, text |-> conv.lastMessageText,
                            deletedAt |-> NoTime])

(***************************************************************************)
(* Typing indicators                                                       *)
(***************************************************************************)
\* milliseconds that pass in one step of the model, and the last Date.now()
ElapseStep == 2500
MaxNow == 7500
\* "now - indicator.timestamp < 5000" of listenToTypingIndicators
TypingMaxAge == 5000

\* time passes
Elapse ==
    /\ clock + ElapseStep <= MaxNow
    /\ clock' = clock + ElapseStep
    /\ UNCHANGED <<idVars, convs, msgs, msgCount, conversationUsers, typingVars,
                   callVars, ctxVars>>

\* the documents after setTypingIndicator(conversationId, u, username, isTyping):
\* setDoc(typingIndicators/{conversationId}_{u}, {userId, timestamp: Date.now(), ...})
\* or deleteDoc of it
TypingWrite(u, isTyping) ==
    IF isTyping
    THEN (u :> clock) @@ typingIndicators
    ELSE [w \in DOMAIN typingIndicators \ {u} |-> typingIndicators[w]]

\* setTypingIndicator: an open listener is due a snapshot when the result of
\* its query changed
SetTypingIndicator(u, isTyping) ==
    /\ typingIndicators' = TypingWrite(u, isTyping)
    /\ typingSub' = [typingSub EXCEPT !.pending =
                        @ \/ (typingSub.open /\ typingIndicators' # typingIndicators)]
    /\ UNCHANGED <<idVars, clock, convs, msgs, msgCount, conversationUsers,
                   typingUsers, callVars, ctxVars>>

\* validTypingUsers: the indicators of the snapshot younger than 5 seconds
ValidTypingUsers(docs, now) ==
    [w \in {x \in DOMAIN docs : now - docs[x] < TypingMaxAge} |-> docs[w]]

\* the onSnapshot callback of listenToTypingIndicators, then the callback of
\* useTypingIndicators: setTypingUsers(validTypingUsers)
TypingSnapshot ==
    /\ typingSub.open
    /\ typingSub.pending
    /\ typingUsers' = ValidTypingUsers(typingIndicators, clock)
    /\ typingSub' = [typingSub EXCEPT !.pending = FALSE]
    /\ UNCHANGED <<idVars, storeVars, callVars, ctxVars, typingIndicators>>

\* the error callback of the listener: callback([]); the listener has ended
TypingError ==
    /\ typingSub.open
    /\ typingUsers' = EmptyFn
    /\ typingSub' = [open |-> FALSE, pending |-> FALSE]
    /\ UNCHANGED <<idVars, storeVars, callVars, ctxVars, typingIndicators>>

(***************************************************************************)
(* A listener of the messages query                                        *)
(***************************************************************************)
\* a client calls sendMessage(conversationId, u, ..., "h") on an existing
\* conversation
SendHello(u) ==
    \E conversationId \in DOMAIN convs :
        /\ SendMessageCall(u, conversationId, u, HelloText, FALSE)
        /\ UNCHANGED <<idVars, clock, convs, msgs, goc, mcr, repoCall, ctxVars,
                       conversationUsers, typingVars, markReads>>

\* a listener subscribeToConversationMessages(conversationId, callback)
\* delivers a snapshot of the store: callback gets the mapped list; recorded
\* with it are the calls as they stood then
ConversationMessagesSnapshot(conversationId) ==
    /\ delivered' = [called |-> TRUE, conv |-> conversationId,
                     list |-> QueryConversationMessages(conversationId, PageSize),
                     goc |-> goc, send |-> send, msgCount |-> msgCount]
    /\ UNCHANGED <<userId1, userId2, idResult, snapDocs, snapUser, storeVars,
                   callVars, ctxVars, typingVars>>

(***************************************************************************)
(* ChatProvider: the two effects                                           *)
(***************************************************************************)
\* the closure of a run of the conversations effect that subscribed
NewLoad(u) ==
    [uid |-> u, hasReceivedData |-> FALSE, isSubscribed |-> TRUE,
     sub |-> "open", manualFetchTimeout |-> "pending",
     initialLoadTimeout |-> "pending", fetch |-> "idle"]

ClearTimer(t) == IF t = "pending" THEN "cleared" ELSE t
Unsubscribe(status) == IF status = "open" THEN "closed" ELSE status

\* the cleanup of the conversations effect that forgets to unsubscribe
ConversationsCleanupKeepingSubscription(l) ==
    [l EXCEPT !.isSubscribed = FALSE,
              !.manualFetchTimeout = ClearTimer(@),
              !.initialLoadTimeout = ClearTimer(@)]

\* the cleanup returned by the conversations effect
ConversationsCleanup(l) ==
    [l EXCEPT !.isSubscribed = FALSE,
              !.manualFetchTimeout = ClearTimer(@),
              !.initialLoadTimeout = ClearTimer(@),
              !.sub = Unsubscribe(@)]

\* the closures after the cleanup of the run that is still subscribed, if any
CleanedLoads ==
    [i \in 1..Len(loads) |->
        IF loads[i].isSubscribed THEN ConversationsCleanup(loads[i]) ELSE loads[i]]

\* the conversations effect re-runs with user u: cleanup, then the body
RunConversationsEffect(u) ==
    IF u = NoUser
    THEN /\ conversations' = <<>>
         /\ conversationsLoading' = FALSE
         /\ loads' = CleanedLoads
         /\ UNCHANGED conversationsError
    ELSE /\ conversationsLoading' = TRUE
         /\ conversationsError' = FALSE
         /\ loads' = Append(CleanedLoads, NewLoad(u))
         /\ UNCHANGED conversations

\* the messages effect forgetting to call messagesUnsubscribeRef.current()
MessagesLeftSubscribed == msgSubs

\* if (messagesUnsubscribeRef.current) { messagesUnsubscribeRef.current(); ... }
UnsubscribedMessages ==
    [i \in 1..Len(msgSubs) |->
        IF i = messagesUnsubscribeRef
        THEN [msgSubs[i] EXCEPT !.status = Unsubscribe(@)]
        ELSE msgSubs[i]]

\* the messages effect re-runs with selected conversation sel and user u:
\* cleanup, then the body
RunMessagesEffect(sel, u) ==
    IF sel = NoConv \/ u = NoUser
    THEN /\ messages' = <<>>
         /\ msgSubs' = UnsubscribedMessages
         /\ messagesUnsubscribeRef' = 0
         /\ UNCHANGED <<messagesLoading, messagesError, mcr>>
    ELSE /\ messagesLoading' = TRUE
         /\ messagesError' = FALSE
         /\ msgSubs' = Append(UnsubscribedMessages,
                              [conv |-> sel, uid |-> u, status |-> "open",
                               delivered |-> FALSE])
         /\ messagesUnsubscribeRef' = Len(msgSubs) + 1
         /\ mcr' = Append(mcr, [pc |-> "query", conv |-> sel, uid |-> u])
         /\ UNCHANGED messages

\* the model can run the conversations effect with user u
CanLoad(u) == u # NoUser => Len(loads) < MaxLoads

\* the model can run the messages effect with sel and u
CanSubscribeMessages(sel, u) ==
    (sel # NoConv /\ u # NoUser) => Len(msgSubs) < MaxMsgSubs

(***************************************************************************)
(* ChatProvider: state changes that re-run the effects                     *)
(***************************************************************************)
\* onAuthStateChanged delivers u (sign-in, sign-out, or another account):
\* both effects re-run
AuthStateChanged(u) ==
    /\ u # user
    /\ CanLoad(u)
    /\ CanSubscribeMessages(selectedConversation, u)
    /\ user' = u
    /\ RunConversationsEffect(u)
    /\ RunMessagesEffect(selectedConversation, u)
    /\ UNCHANGED <<idVars, storeVars, goc, send, repoCall, selectedConversation,
                   forceRefresh, userProfileRef, lastCall, typingVars, markReads, chatDetail>>

\* refreshConversations: the conversations effect re-runs
RefreshConversations ==
    /\ forceRefresh < MaxRefresh
    /\ CanLoad(user)
    /\ forceRefresh' = forceRefresh + 1
    /\ RunConversationsEffect(user)
    /\ UNCHANGED <<idVars, storeVars, callVars, user, selectedConversation,
                   msgStateVars, userProfileRef, msgSubs,
                   messagesUnsubscribeRef, lastCall, typingVars, chatDetail>>

\* the conversations a screen can pass to selectConversation: those of the
\* list
Selectable == {conversations[i].id : i \in 1..Len(conversations)}

\* selectConversation(c) with another id than the selected one: the messages
\* effect re-runs
SelectConversation(c) ==
    /\ c \in Selectable \cup {NoConv}
    /\ c # selectedConversation
    /\ CanSubscribeMessages(c, user)
    /\ selectedConversation' = c
    /\ RunMessagesEffect(c, user)
    /\ UNCHANGED <<idVars, storeVars, goc, send, repoCall, user, convStateVars,
                   forceRefresh, userProfileRef, loads, lastCall, typingVars, markReads, chatDetail>>

\* totalUnreadCount: conversations.reduce((sum, conv) => sum + (conv.unreadCount || 0), 0)
RECURSIVE TotalUnreadCount(_)
TotalUnreadCount(list) ==
    IF list = <<>> THEN 0
    ELSE (IF "unreadCount" \in DOMAIN Head(list) THEN Head(list).unreadCount ELSE 0)
         + TotalUnreadCount(Tail(list))

(***************************************************************************)
(* ChatDetailScreen                                                        *)
(***************************************************************************)
\* the effect "ensure conversation is selected when screen loads" of a
\* screen with route parameter conversationId, run after a commit in which
\* the screen is mounted: it has something to select when the selection is
\* another one (or none) and the conversation is found in conversations
SelectOnLoadPending(conversationId, sel) ==
    /\ conversationId # NoConv
    /\ sel # conversationId
    /\ conversationId \in Selectable

\* handleSelectConversation of the conversation list screen:
\* selectConversation(conversation), then navigate("ChatDetail", {conversationId});
\* the mounted screen finds its conversation selected
OpenChatDetail(c) ==
    /\ chatDetail = NoScreen
    /\ c \in Selectable
    /\ CanSubscribeMessages(c, user)
    /\ selectedConversation' = c
    /\ IF c = selectedConversation
       THEN UNCHANGED <<msgStateVars, msgSubs, messagesUnsubscribeRef, mcr>>
       ELSE RunMessagesEffect(c, user)
    /\ chatDetail' = [conversationId |-> c, back |-> FALSE]
    /\ UNCHANGED <<idVars, storeVars, goc, send, repoCall, user, convStateVars,
                   forceRefresh, userProfileRef, loads, lastCall, typingVars, markReads>>

\* handleBackPress: selectConversation(null), then navigation.goBack(); the
\* commit of the two state changes either still renders the screen (it is
\* removed by a later commit) or has removed it already
HandleBackPress(removed) ==
    /\ chatDetail # NoScreen
    /\ ~chatDetail.back
    /\ selectedConversation' = NoConv
    /\ IF selectedConversation = NoConv
       THEN UNCHANGED <<msgStateVars, msgSubs, messagesUnsubscribeRef, mcr>>
       ELSE RunMessagesEffect(NoConv, user)
    /\ chatDetail' = IF removed THEN NoScreen ELSE [chatDetail EXCEPT !.back = TRUE]
    /\ UNCHANGED <<idVars, storeVars, goc, send, repoCall, user, convStateVars,
                   forceRefresh, userProfileRef, loads, lastCall, typingVars, markReads>>

\* the select-on-load effect of the mounted screen after a commit that
\* changed selectedConversation or conversations
SelectOnLoad ==
    /\ chatDetail # NoScreen
    /\ SelectOnLoadPending(chatDetail.conversationId, selectedConversation)
    /\ CanSubscribeMessages(chatDetail.conversationId, user)
    /\ selectedConversation' = chatDetail.conversationId
    /\ RunMessagesEffect(chatDetail.conversationId, user)
    /\ UNCHANGED <<idVars, storeVars, goc, send, repoCall, user, convStateVars,
                   forceRefresh, userProfileRef, loads, lastCall, typingVars, markReads,
                   chatDetail>>

\* the navigator removes the screen that went back
ChatDetailRemoved ==
    /\ chatDetail # NoScreen
    /\ chatDetail.back
    /\ chatDetail' = NoScreen
    /\ UNCHANGED <<idVars, storeVars, callVars, typingVars, user, conversations,
                   selectedConversation, conversationsLoading, conversationsError,
                   forceRefresh, messages, messagesLoading, messagesError,
                   userProfileRef, loads, msgSubs, messagesUnsubscribeRef, lastCall>>

(***************************************************************************)
(* ChatProvider: the conversations load                                    *)
(***************************************************************************)
\* the onSnapshot callback of the subscription of load i, then the first
\* callback passed by the conversations effect
ConversationsSnapshot(i) ==
    /\ loads[i].sub = "open"
    /\ loads' = [loads EXCEPT ![i].hasReceivedData = TRUE]
    /\ conversations' = ProjectUserConversations(QueryUserConversations(loads[i].uid),
                                                 loads[i].uid)
    /\ conversationsLoading' = FALSE
    /\ UNCHANGED <<idVars, storeVars, callVars, user, selectedConversation,
                   conversationsError, forceRefresh, msgStateVars, userProfileRef,
                   msgSubs, messagesUnsubscribeRef, lastCall, typingVars, chatDetail>>

\* the subscription of load i fails: the listener ends and the onError
\* callback passed by the conversations effect runs
ConversationsError(i) ==
    /\ loads[i].sub = "open"
    /\ loads' = [loads EXCEPT ![i].hasReceivedData = TRUE, ![i].sub = "errored"]
    /\ conversationsError' = TRUE
    /\ conversationsLoading' = FALSE
    /\ UNCHANGED <<idVars, storeVars, callVars, user, selectedConversation,
                   conversations, forceRefresh, msgStateVars, userProfileRef,
                   msgSubs, messagesUnsubscribeRef, lastCall, typingVars, chatDetail>>

\* the 5000 ms timer of load i fires: manualFetch() runs up to await getDocs
ManualFetchTimeout(i) ==
    /\ loads[i].manualFetchTimeout = "pending"
    /\ loads' = [loads EXCEPT
                   ![i].manualFetchTimeout = "fired",
                   ![i].fetch = IF ~loads[i].hasReceivedData /\ loads[i].isSubscribed
                                THEN "inflight" ELSE @]
    /\ UNCHANGED <<idVars, storeVars, callVars, user, selectedConversation,
                   convStateVars, forceRefresh, msgStateVars, userProfileRef,
                   msgSubs, messagesUnsubscribeRef, lastCall, typingVars, chatDetail>>

\* the .filter(...) of manualFetch
KeepFetchedConversation(conv, userId) == ~conv.isArchived

RECURSIVE FilterFetched(_, _)
FilterFetched(list, userId) ==
    IF list = <<>> THEN <<>>
    ELSE IF KeepFetchedConversation(Head(list), userId)
         THEN <<Head(list)>> \o FilterFetched(Tail(list), userId)
         ELSE FilterFetched(Tail(list), userId)

\* a manualFetch that does not look at isSubscribed after its await
ManualFetchReturnUnchecked(i) ==
    /\ loads[i].fetch = "inflight"
    /\ loads' = [loads EXCEPT ![i].fetch = "returned",
                              ![i].hasReceivedData = TRUE]
    /\ conversations' =
           SortConversations(FilterFetched(
               MapWithIds(QueryUserConversations(loads[i].uid)), loads[i].uid))
    /\ conversationsLoading' = FALSE
    /\ UNCHANGED conversationsError
    /\ UNCHANGED <<idVars, storeVars, callVars, user, selectedConversation,
                   forceRefresh, msgStateVars, userProfileRef,
                   msgSubs, messagesUnsubscribeRef, lastCall, typingVars, chatDetail>>

\* getDocs of manualFetch returns for load i
ManualFetchReturn(i) ==
    /\ loads[i].fetch = "inflight"
    /\ IF ~loads[i].isSubscribed
       THEN /\ loads' = [loads EXCEPT ![i].fetch = "returned"]
            /\ UNCHANGED convStateVars
       ELSE /\ loads' = [loads EXCEPT ![i].fetch = "returned",
                                      ![i].hasReceivedData = TRUE]
            /\ conversations' =
                   SortConversations(FilterFetched(
                       MapWithIds(QueryUserConversations(loads[i].uid)), loads[i].uid))
            /\ conversationsLoading' = FALSE
            /\ UNCHANGED conversationsError
    /\ UNCHANGED <<idVars, storeVars, callVars, user, selectedConversation,
                   forceRefresh, msgStateVars, userProfileRef,
                   msgSubs, messagesUnsubscribeRef, lastCall, typingVars, chatDetail>>

\* getDocs of manualFetch rejects for load i: the catch block runs
ManualFetchFail(i) ==
    /\ loads[i].fetch = "inflight"
    /\ loads' = [loads EXCEPT ![i].fetch = "failed"]
    /\ IF loads[i].isSubscribed
       THEN /\ conversationsError' = TRUE
            /\ conversationsLoading' = FALSE
            /\ UNCHANGED conversations
       ELSE UNCHANGED convStateVars
    /\ UNCHANGED <<idVars, storeVars, callVars, user, selectedConversation,
                   forceRefresh, msgStateVars, userProfileRef,
                   msgSubs, messagesUnsubscribeRef, lastCall, typingVars, chatDetail>>

\* a 15000 ms timer whose callback does nothing
InitialLoadTimeoutWithoutFallback(i) ==
    /\ loads[i].initialLoadTimeout = "pending"
    /\ loads[i].manualFetchTimeout # "pending"
    /\ loads' = [loads EXCEPT ![i].initialLoadTimeout = "fired"]
    /\ UNCHANGED <<idVars, storeVars, callVars, user, selectedConversation,
                   convStateVars, forceRefresh, msgStateVars, userProfileRef,
                   msgSubs, messagesUnsubscribeRef, lastCall, typingVars, chatDetail>>

\* the 15000 ms timer of load i fires; the 5000 ms timer of the same run is
\* no longer pending then
InitialLoadTimeout(i) ==
    /\ loads[i].initialLoadTimeout = "pending"
    /\ loads[i].manualFetchTimeout # "pending"
    /\ loads' = [loads EXCEPT ![i].initialLoadTimeout = "fired"]
    /\ IF ~loads[i].hasReceivedData
       THEN /\ conversations' = <<>>
            /\ conversationsLoading' = FALSE
            /\ UNCHANGED conversationsError
       ELSE UNCHANGED convStateVars
    /\ UNCHANGED <<idVars, storeVars, callVars, user, selectedConversation,
                   forceRefresh, msgStateVars, userProfileRef,
                   msgSubs, messagesUnsubscribeRef, lastCall, typingVars, chatDetail>>

(***************************************************************************)
(* ChatProvider: the messages subscription                                 *)
(***************************************************************************)
\* the onSnapshot callback of messages subscription i, then the first
\* callback passed by the messages effect
MessagesSnapshot(i) ==
    /\ msgSubs[i].status = "open"
    /\ msgSubs' = [msgSubs EXCEPT ![i].delivered = TRUE]
    /\ messages' = QueryConversationMessages(msgSubs[i].conv, PageSize)
    /\ messagesLoading' = FALSE
    /\ UNCHANGED <<idVars, storeVars, callVars, user, selectedConversation,
                   convStateVars, forceRefresh, messagesError, userProfileRef,
                   loads, messagesUnsubscribeRef, lastCall, typingVars, chatDetail>>

\* messages subscription i fails: the listener ends and the onError callback
\* passed by the messages effect runs
MessagesError(i) ==
    /\ msgSubs[i].status = "open"
    /\ msgSubs' = [msgSubs EXCEPT ![i].status = "errored"]
    /\ messagesError' = TRUE
    /\ messagesLoading' = FALSE
    /\ UNCHANGED <<idVars, storeVars, callVars, user, selectedConversation,
                   convStateVars, forceRefresh, messages, userProfileRef,
                   loads, messagesUnsubscribeRef, lastCall, typingVars, chatDetail>>

(***************************************************************************)
(* markConversationAsRead                                                  *)
(***************************************************************************)
\* getDocs(query(messagesRef, where("readBy", "!=", null))) returns and the
\* batch is built: every message document has a readBy map
McrQuery(i) ==
    /\ mcr[i].pc = "query"
    /\ mcr' = [mcr EXCEPT ![i] = [pc |-> "commit", conv |-> @.conv, uid |-> @.uid,
                                  fetched |-> MessagesOf(@.conv), now |-> clock]]
    /\ UNCHANGED <<idVars, storeVars, goc, send, repoCall, ctxVars, typingVars, markReads>>

\* batch.commit() reaches the store: it fails as a whole when one of the
\* documents no longer exists
McrCommit(i) ==
    /\ mcr[i].pc = "commit"
    /\ IF mcr[i].fetched \subseteq DOMAIN msgs
       THEN /\ msgs' = [m \in DOMAIN msgs |->
                          IF m \in mcr[i].fetched
                          THEN [msgs[m] EXCEPT !.readBy = (mcr[i].uid :> mcr[i].now) @@ @]
                          ELSE msgs[m]]
            /\ mcr' = [mcr EXCEPT ![i] = [pc |-> "reset", conv |-> @.conv]]
       ELSE /\ mcr' = [mcr EXCEPT ![i] = [pc |-> "failed"]]
            /\ UNCHANGED msgs
    /\ UNCHANGED <<idVars, clock, convs, msgCount, goc, send, repoCall, ctxVars,
                   conversationUsers, typingVars, markReads>>

\* a markConversationAsRead that resolves without resetting unreadCount
McrResetSkipped(i) ==
    /\ mcr[i].pc = "reset"
    /\ mcr' = [mcr EXCEPT ![i] = [pc |-> "done"]]
    /\ UNCHANGED <<idVars, storeVars, goc, send, repoCall, ctxVars, typingVars, markReads>>

\* updateDoc(conversation, {unreadCount: 0}) reaches the store: it fails when
\* the conversation document does not exist
McrReset(i) ==
    /\ mcr[i].pc = "reset"
    /\ IF mcr[i].conv \in DOMAIN convs
       THEN /\ convs' = [convs EXCEPT ![mcr[i].conv].unreadCount = 0]
            /\ mcr' = [mcr EXCEPT ![i] = [pc |-> "done"]]
       ELSE /\ mcr' = [mcr EXCEPT ![i] = [pc |-> "failed"]]
            /\ UNCHANGED convs
    /\ UNCHANGED <<idVars, clock, msgs, msgCount, goc, send, repoCall, ctxVars,
                   conversationUsers, typingVars, markReads>>

(***************************************************************************)
(* MessageList: the effect that marks the visible messages as read         *)
(***************************************************************************)
\* the markAsRead(message.id) calls made by the effect for the list it
\* renders: one for every message that is not deleted and not the user's own;
\* each runs markMessageAsRead up to await updateDoc(...) with its Date.now().
\* Recorded with a call is whether the list already showed the message as
\* read by the user.
MarkVisible(list, conversationId, uid, now) ==
    {[id |-> list[k].id, conv |-> conversationId, uid |-> uid, now |-> now,
      again |-> (list[k].isRead /\ uid \in DOMAIN list[k].readBy)] :
        k \in {j \in 1..Len(list) :
                  ~IsMessageDeleted(list[j]) /\ list[j].senderId # uid}}

\* the onSnapshot callback of messages subscription i with the message list
\* mounted: Firestore calls it for the first snapshot and when the result of
\* the query changed; setMessages re-renders the list and its effect runs
MessageListSnapshot(i) ==
    /\ msgSubs[i].status = "open"
    /\ LET q == QueryConversationMessages(msgSubs[i].conv, PageSize)
       IN /\ ~msgSubs[i].delivered \/ q # messages
          /\ messages' = q
          /\ markReads' = markReads \cup MarkVisible(q, selectedConversation, user, clock)
    /\ msgSubs' = [msgSubs EXCEPT ![i].delivered = TRUE]
    /\ messagesLoading' = FALSE
    /\ UNCHANGED <<idVars, storeVars, goc, send, mcr, repoCall, user,
                   selectedConversation, convStateVars, forceRefresh, messagesError,
                   userProfileRef, loads, messagesUnsubscribeRef, lastCall,
                   typingVars, chatDetail>>

\* updateDoc(messageRef, {isRead: true, [`readBy.${userId}`]: now}) of
\* markMessageAsRead reaches the store; it is rejected, and the rejection
\* logged, when the document does not exist
MarkMessageAsReadWrite(w) ==
    /\ w \in markReads
    /\ markReads' = markReads \ {w}
    /\ IF w.id \in DOMAIN msgs /\ msgs[w.id].conversationId = w.conv
       THEN msgs' = [msgs EXCEPT ![w.id].isRead = TRUE,
                                 ![w.id].readBy = (w.uid :> w.now) @@ @]
       ELSE UNCHANGED msgs
    /\ UNCHANGED <<idVars, clock, convs, msgCount, conversationUsers, typingVars,
                   goc, send, mcr, repoCall, ctxVars>>

(***************************************************************************)
(* ChatProvider: the actions                                               *)
(***************************************************************************)
NoCall == [op |-> "none"]

\* the texts and attachments sendMessage is called with
SendInputs ==
    {<<HelloText, FALSE>>, <<EmptyText, FALSE>>, <<EmptyText, TRUE>>}

\* the guard of the context's sendMessage: if (!user || !selectedConversation) throw
ContextSendAccepts(text, hasMedia) ==
    /\ user # NoUser
    /\ selectedConversation # NoConv

\* what the caller of sendMessage(text, mediaUrls) saw
SendCallRecord(text, hasMedia, outcome) ==
    [op |-> "sendMessage", empty |-> (text = EmptyText /\ ~hasMedia),
     selected |-> (selectedConversation # NoConv), outcome |-> outcome]

\* sendMessage(text, mediaUrls) of the context; the profile of user.uid is
\* read when none is cached
ContextSendMessage(text, hasMedia) ==
    /\ IF ~ContextSendAccepts(text, hasMedia)
       THEN /\ lastCall' = SendCallRecord(text, hasMedia, "rejected")
            /\ UNCHANGED <<send, msgCount, userProfileRef>>
       ELSE /\ userProfileRef' = IF userProfileRef = NoUser THEN user ELSE userProfileRef
            /\ SendMessageCall(user, selectedConversation, userProfileRef', text, hasMedia)
            /\ lastCall' = SendCallRecord(text, hasMedia, "issued")
    /\ UNCHANGED <<idVars, clock, convs, msgs, goc, mcr, repoCall, user, selectedConversation,
                   convStateVars, forceRefresh, msgStateVars,
                   loads, msgSubs, messagesUnsubscribeRef, conversationUsers, typingVars,
                   markReads, chatDetail>>

\* the guard of the context's editMessage and deleteMessage:
\* if (!selectedConversation || !user) throw
ContextWriteAccepts(messageId) ==
    /\ user # NoUser
    /\ selectedConversation # NoConv

\* what the caller of editMessage or deleteMessage saw
WriteCallRecord(op, messageId, outcome) ==
    [op |-> op, own |-> (msgs[messageId].senderId = user), outcome |-> outcome]

\* an editMessage that also stamps the message with the time of the edit
ContextEditMessageRestamped(messageId) ==
    /\ IF ContextWriteAccepts(messageId)
          /\ msgs[messageId].conversationId = selectedConversation
       THEN /\ msgs' = [msgs EXCEPT ![messageId].text = EditedText,
                                    ![messageId].editedAt = clock,
                                    ![messageId].timestamp = clock]
            /\ lastCall' = WriteCallRecord("editMessage", messageId, "issued")
       ELSE /\ lastCall' = WriteCallRecord("editMessage", messageId, "rejected")
            /\ UNCHANGED msgs
    /\ UNCHANGED <<idVars, clock, convs, msgCount, callVars, user, selectedConversation,
                   convStateVars, forceRefresh, msgStateVars, userProfileRef,
                   loads, msgSubs, messagesUnsubscribeRef, conversationUsers, typingVars,
                   chatDetail>>

\* editMessage(messageId, newText) of the context: updateDoc rejects when
\* the selected conversation has no such message
ContextEditMessage(messageId) ==
    /\ IF ContextWriteAccepts(messageId)
          /\ msgs[messageId].conversationId = selectedConversation
       THEN /\ msgs' = [msgs EXCEPT ![messageId].text = EditedText,
                                    ![messageId].editedAt = clock]
            /\ lastCall' = WriteCallRecord("editMessage", messageId, "issued")
       ELSE /\ lastCall' = WriteCallRecord("editMessage", messageId, "rejected")
            /\ UNCHANGED msgs
    /\ UNCHANGED <<idVars, clock, convs, msgCount, callVars, user, selectedConversation,
                   convStateVars, forceRefresh, msgStateVars, userProfileRef,
                   loads, msgSubs, messagesUnsubscribeRef, conversationUsers, typingVars,
                   chatDetail>>

\* deleteMessage(messageId) of the context
ContextDeleteMessage(messageId) ==
    /\ IF ContextWriteAccepts(messageId)
          /\ msgs[messageId].conversationId = selectedConversation
       THEN /\ msgs' = [msgs EXCEPT ![messageId].text = Tombstone,
                                    ![messageId].deletedAt = clock]
            /\ lastCall' = WriteCallRecord("deleteMessage", messageId, "issued")
       ELSE /\ lastCall' = WriteCallRecord("deleteMessage", messageId, "rejected")
            /\ UNCHANGED msgs
    /\ UNCHANGED <<idVars, clock, convs, msgCount, callVars, user, selectedConversation,
                   convStateVars, forceRefresh, msgStateVars, userProfileRef,
                   loads, msgSubs, messagesUnsubscribeRef, conversationUsers, typingVars,
                   chatDetail>>

(***************************************************************************)
(* Specifications                                                          *)
(***************************************************************************)
IdleCalls ==
    /\ goc = [u \in Users |-> IdleCall]
    /\ send = [u \in Users |-> IdleCall]
    /\ mcr = <<>>
    /\ repoCall = [u \in Users |-> IdleCall]
    /\ markReads = {}

\* ChatProvider after its first render with no user signed in
InitContext ==
    /\ user = NoUser
    /\ conversations = <<>>
    /\ selectedConversation = NoConv
    /\ conversationsLoading = FALSE
    /\ conversationsError = FALSE
    /\ forceRefresh = 0
    /\ messages = <<>>
    /\ messagesLoading = FALSE
    /\ messagesError = FALSE
    /\ userProfileRef = NoUser
    /\ loads = <<>>
    /\ msgSubs = <<>>
    /\ messagesUnsubscribeRef = 0
    /\ lastCall = NoCall
    /\ chatDetail = NoScreen

\* the id computations on bounded inputs
InitId ==
    /\ InitContext
    /\ InitIdInputs
    /\ EmptyStore
    /\ IdleCalls

NextId == ComputeIds

SpecId == InitId /\ [][NextId]_vars

\* the projection of subscribeToUserConversations on bounded snapshots
InitList ==
    /\ InitContext
    /\ IdleIds
    /\ InitSnapshot
    /\ EmptyStore
    /\ IdleCalls

NextList == DeliverSnapshot

SpecList == InitList /\ [][NextList]_vars

\* two clients calling the repository; the store is empty or holds a legacy
\* conversation document of the pair
InitRepo ==
    /\ InitContext
    /\ IdleIdInputs
    /\ clock = 0
    /\ convs \in {EmptyFn,
                  (CreateConversationDocId(UserA, UserB) :> LegacyConversation(UserA, UserB))}
    /\ msgs = EmptyFn
    /\ msgCount = 0
    /\ conversationUsers = {}
    /\ NoTyping
    /\ IdleCalls

NextRepo ==
    \/ Tick
    \/ \E u \in Users : GocCall(u)
    \/ \E u \in Users : GocRead(u)
    \/ \E u \in Users : GocCreate(u)
    \/ \E u \in Users : GocRepair(u)
    \/ \E u \in Users : GocReread(u)
    \/ \E u \in Users : RepoSend(u)
    \/ \E u \in Users : SendWriteMessage(u)
    \/ \E u \in Users : SendWriteConversation(u)

SpecRepo == InitRepo /\ [][NextRepo]_vars

\* the message of the seeded store: sent by UserB to the conversation of
\* UserA and UserB at Date.now() = 0
SeededMessage ==
    MessageData(1, CreateConversationDocId(UserA, UserB), UserB, UserB,
                HelloText, FALSE, 0)

\* a store after UserA started a conversation with UserB and one with UserC,
\* and UserB sent one message
SeededStore ==
    /\ clock = 1
    /\ convs = (CreateConversationDocId(UserA, UserB) :>
                   SummaryMerge(ConversationData(UserA, UserB, 0), SeededMessage))
               @@ (CreateConversationDocId(UserA, UserC) :>
                      ConversationData(UserA, UserC, 0))
    /\ msgs = (1 :> SeededMessage)
    /\ msgCount = 1
    /\ conversationUsers = {}
    /\ NoTyping

\* a store after UserA started a conversation with UserB and one with UserC:
\* no message has been sent yet
StartedStore ==
    /\ clock = 1
    /\ convs = (CreateConversationDocId(UserA, UserB) :>
                   ConversationData(UserA, UserB, 0))
               @@ (CreateConversationDocId(UserA, UserC) :>
                      ConversationData(UserA, UserC, 0))
    /\ msgs = EmptyFn
    /\ msgCount = 0
    /\ conversationUsers = {}
    /\ NoTyping

\* ChatProvider on one device over the started store
InitStarted ==
    /\ InitContext
    /\ IdleIdInputs
    /\ StartedStore
    /\ IdleCalls

\* the store is empty, or holds a legacy conversation document of the pair
\* with one message
InitDelete ==
    /\ InitContext
    /\ IdleIdInputs
    /\ clock = 0
    /\ \/ /\ convs = EmptyFn
          /\ msgs = EmptyFn
          /\ msgCount = 0
          /\ conversationUsers = {}
          /\ NoTyping
       \/ /\ convs = (CreateConversationDocId(UserA, UserB) :>
                         SummaryMerge(LegacyConversation(UserA, UserB), SeededMessage))
          /\ msgs = (1 :> SeededMessage)
          /\ msgCount = 1
          /\ conversationUsers = {}
          /\ NoTyping
    /\ IdleCalls

\* two clients starting and deleting their conversation, and their listeners
\* of the conversations query
NextDelete ==
    \/ \E u \in Users : GocCall(u)
    \/ \E u \in Users : GocRead(u)
    \/ \E u \in Users : GocCreate(u)
    \/ \E u \in Users : GocRepair(u)
    \/ \E u \in Users : GocReread(u)
    \/ \E u \in Users, id \in DOMAIN convs : DeleteConversationCall(u, id)
    \/ \E u \in Users : DeleteConversationWrite(u)
    \/ \E u \in Users : UserConversationsSnapshot(u)

SpecDelete == InitDelete /\ [][NextDelete]_vars

\* the three messages UserA sent to the conversation with UserB
SentMessages ==
    [m \in 1..3 |->
        MessageData(m, CreateConversationDocId(UserA, UserB), UserA, UserA,
                    HelloText, FALSE, m - 1)]

\* a store after UserA started the conversation with UserB and sent three
\* messages; unreadCount is 0, or 3 after updateConversationUnreadCount(id, 3)
InitRead ==
    /\ InitContext
    /\ IdleIdInputs
    /\ clock = 3
    /\ \E n \in {0, 3} :
          convs = (CreateConversationDocId(UserA, UserB) :>
                      [SummaryMerge(ConversationData(UserA, UserB, 0), SentMessages[3])
                          EXCEPT !.unreadCount = n])
    /\ msgs = SentMessages
    /\ msgCount = 3
    /\ conversationUsers = {}
    /\ NoTyping
    /\ IdleCalls

\* two clients starting their conversation and sending "h", and a listener of
\* the messages of their conversation
NextHello ==
    \/ \E u \in Users : GocCall(u)
    \/ \E u \in Users : GocRead(u)
    \/ \E u \in Users : GocCreate(u)
    \/ \E u \in Users : GocRepair(u)
    \/ \E u \in Users : GocReread(u)
    \/ \E u \in Users : SendHello(u)
    \/ \E u \in Users : SendWriteMessage(u)
    \/ \E u \in Users : SendWriteConversation(u)
    \/ ConversationMessagesSnapshot(CreateConversationDocId(UserA, UserB))

SpecHello == InitRepo /\ [][NextHello]_vars

\* two clients setting and clearing their typing indicators in one
\* conversation, and a listener of that conversation
NextTyping ==
    \/ Elapse
    \/ \E u \in Users, isTyping \in BOOLEAN : SetTypingIndicator(u, isTyping)
    \/ TypingSnapshot
    \/ TypingError

SpecTyping == InitRepo /\ [][NextTyping]_vars

\* ChatProvider on one device over the seeded store
InitCtx ==
    /\ InitContext
    /\ IdleIdInputs
    /\ SeededStore
    /\ IdleCalls

\* two clients sending to the conversations they started, with writes of the
\* conversation document that can be rejected
NextPartial ==
    \/ Tick
    \/ \E u \in Users : SendHello(u)
    \/ \E u \in Users : SendWriteMessage(u)
    \/ \E u \in Users : SendWriteConversation(u)
    \/ \E u \in Users : SendFailConversation(u)

SpecPartial == InitStarted /\ [][NextPartial]_vars

\* two clients sending to and clearing the conversations of the seeded store
NextClear ==
    \/ \E u \in Users : SendHello(u)
    \/ \E u \in Users : SendWriteMessage(u)
    \/ \E u \in Users : SendWriteConversation(u)
    \/ \E u \in Users, id \in DOMAIN convs : ClearConversationMessagesCall(u, id)
    \/ \E u \in Users : ClearRead(u)
    \/ \E u \in Users : ClearCommit(u)

SpecClear == InitCtx /\ [][NextClear]_vars

\* the conversations load: sign-in, sign-out, refresh, the subscription and
\* the two timers
NextLoad ==
    \/ \E u \in Users \cup {NoUser} : AuthStateChanged(u)
    \/ RefreshConversations
    \/ \E i \in 1..Len(loads) : ConversationsSnapshot(i)
    \/ \E i \in 1..Len(loads) : ConversationsError(i)
    \/ \E i \in 1..Len(loads) : ManualFetchTimeout(i)
    \/ \E i \in 1..Len(loads) : ManualFetchReturn(i)
    \/ \E i \in 1..Len(loads) : ManualFetchFail(i)
    \/ \E i \in 1..Len(loads) : InitialLoadTimeout(i)

\* a timer set with setTimeout fires unless it is cleared
TimersFire ==
    \A i \in 1..MaxLoads :
        /\ WF_vars(i <= Len(loads) /\ ManualFetchTimeout(i))
        /\ WF_vars(i <= Len(loads) /\ InitialLoadTimeout(i))

SpecLoad == InitCtx /\ [][NextLoad]_vars /\ TimersFire

\* what every specification of the context below can do: sign-in, sign-out
\* and user switch, selection, and the deliveries of the two subscriptions
\* and of markConversationAsRead
NextSession ==
    \/ \E u \in Users \cup {NoUser} : AuthStateChanged(u)
    \/ \E c \in Selectable \cup {NoConv} : SelectConversation(c)
    \/ \E i \in 1..Len(loads) : ConversationsSnapshot(i)
    \/ \E i \in 1..Len(msgSubs) : MessagesSnapshot(i)
    \/ \E i \in 1..Len(mcr) : McrQuery(i)
    \/ \E i \in 1..Len(mcr) : McrCommit(i)
    \/ \E i \in 1..Len(mcr) : McrReset(i)

\* the subscriptions of the context
NextSubs ==
    \/ NextSession
    \/ RefreshConversations
    \/ \E i \in 1..Len(loads) : ConversationsError(i)
    \/ \E i \in 1..Len(msgSubs) : MessagesError(i)

SpecSubs == InitCtx /\ [][NextSubs]_vars

\* sending through the context
NextSend ==
    \/ NextSession
    \/ \E in \in SendInputs : ContextSendMessage(in[1], in[2])
    \/ \E u \in Users : SendWriteMessage(u)
    \/ \E u \in Users : SendWriteConversation(u)

SpecSend == InitCtx /\ [][NextSend]_vars

\* sending a text through the context as one user after another
NextProfile ==
    \/ NextSession
    \/ ContextSendMessage(HelloText, FALSE)
    \/ \E u \in Users : SendWriteMessage(u)
    \/ \E u \in Users : SendWriteConversation(u)

SpecProfile == InitStarted /\ [][NextProfile]_vars

\* editing and deleting through the context
NextEdit ==
    \/ NextSession
    \/ \E m \in DOMAIN msgs : ContextEditMessage(m)
    \/ \E m \in DOMAIN msgs : ContextDeleteMessage(m)

SpecEdit == InitCtx /\ [][NextEdit]_vars

\* a device on which messages of a conversation of three are edited
NextRevise ==
    \/ NextSession
    \/ \E m \in DOMAIN msgs : ContextEditMessage(m)

\* the three sent messages have been read before
InitRevise ==
    /\ InitRead
    /\ \A id \in DOMAIN convs : convs[id].unreadCount = 0

SpecRevise == InitRevise /\ [][NextRevise]_vars

\* messages sent to the conversation of UserA and UserB by UserB at
\* Date.now() = 0, before the messages that the model sends
OlderMessages(n) ==
    [m \in (0 - n)..(0 - 1) |->
        MessageData(m, CreateConversationDocId(UserA, UserB), UserB, UserB,
                    HelloText, FALSE, 0)]

\* the conversation of UserA and UserB holds no message or a full page of them
InitPage ==
    /\ InitContext
    /\ IdleIdInputs
    /\ clock = 1
    /\ \E n \in {0, PageSize} :
          /\ msgs = OlderMessages(n)
          /\ convs = (CreateConversationDocId(UserA, UserB) :>
                         IF n = 0
                         THEN ConversationData(UserA, UserB, 0)
                         ELSE SummaryMerge(ConversationData(UserA, UserB, 0),
                                           OlderMessages(n)[0 - 1]))
    /\ msgCount = 0
    /\ conversationUsers = {}
    /\ NoTyping
    /\ IdleCalls

\* two clients sending to that conversation, and a listener of its messages
NextPage ==
    \/ Tick
    \/ \E u \in Users : SendHello(u)
    \/ \E u \in Users : SendWriteMessage(u)
    \/ \E u \in Users : SendWriteConversation(u)
    \/ ConversationMessagesSnapshot(CreateConversationDocId(UserA, UserB))

SpecPage == InitPage /\ [][NextPage]_vars

\* the seeded store after deleteConversation(A_C, UserA) completed
InitDeleted ==
    /\ InitContext
    /\ IdleIdInputs
    /\ clock = 1
    /\ convs = (CreateConversationDocId(UserA, UserB) :>
                   SummaryMerge(ConversationData(UserA, UserB, 0), SeededMessage))
               @@ (CreateConversationDocId(UserA, UserC) :>
                      [ConversationData(UserA, UserC, 0) EXCEPT !.deletedBy = {UserA}])
    /\ msgs = (1 :> SeededMessage)
    /\ msgCount = 1
    /\ conversationUsers = {}
    /\ NoTyping
    /\ IdleCalls

\* the conversations load on a device, over that store
SpecFallback == InitDeleted /\ [][NextLoad]_vars /\ TimersFire

\* a device on which a conversation is opened in the chat screen, whose
\* message list marks what it shows as read
NextMarkRead ==
    \/ Tick
    \/ \E u \in Users \cup {NoUser} : AuthStateChanged(u)
    \/ \E c \in Selectable \cup {NoConv} : SelectConversation(c)
    \/ \E i \in 1..Len(loads) : ConversationsSnapshot(i)
    \/ \E i \in 1..Len(msgSubs) : MessageListSnapshot(i)
    \/ \E i \in 1..Len(mcr) : McrQuery(i)
    \/ \E i \in 1..Len(mcr) : McrCommit(i)
    \/ \E i \in 1..Len(mcr) : McrReset(i)
    \/ \E w \in markReads : MarkMessageAsReadWrite(w)

SpecMarkRead == InitCtx /\ [][NextMarkRead]_vars

\* a device on which conversations are opened from the list in the
\* ChatDetailScreen and left with its back button
NextScreen ==
    \/ \E u \in Users \cup {NoUser} : AuthStateChanged(u)
    \/ \E i \in 1..Len(loads) : ConversationsSnapshot(i)
    \/ \E i \in 1..Len(msgSubs) : MessagesSnapshot(i)
    \/ \E i \in 1..Len(mcr) : McrQuery(i)
    \/ \E i \in 1..Len(mcr) : McrCommit(i)
    \/ \E i \in 1..Len(mcr) : McrReset(i)
    \/ \E c \in Selectable : OpenChatDetail(c)
    \/ \E removed \in BOOLEAN : HandleBackPress(removed)
    \/ SelectOnLoad
    \/ ChatDetailRemoved

SpecScreen == InitCtx /\ [][NextScreen]_vars

\* startConversation(otherUserId) of the context: if (!user) throw, then
\* getOrCreateConversation(user.uid, otherUserId, ...)
StartConversation ==
    /\ user \in Users
    /\ GocCall(user)

\* most messages sent to the conversations the participants start
MaxUnreadMsgs == 1

\* every markConversationAsRead and markMessageAsRead of the device has
\* settled
ReadMarksSettled ==
    /\ markReads = {}
    /\ \A i \in 1..Len(mcr) : mcr[i].pc \in {"done", "failed"}

\* a device on which either participant starts the conversation, opens it,
\* sends, edits and deletes, with a message list that marks what it shows
\* as read; messages of the open conversation are edited and deleted once
\* the read marks have settled
NextUnread ==
    \/ \E u \in Users \cup {NoUser} : AuthStateChanged(u)
    \/ \E c \in Selectable \cup {NoConv} : SelectConversation(c)
    \/ \E i \in 1..Len(loads) : ConversationsSnapshot(i)
    \/ \E i \in 1..Len(msgSubs) : MessageListSnapshot(i)
    \/ \E i \in 1..Len(mcr) : McrQuery(i)
    \/ \E i \in 1..Len(mcr) : McrCommit(i)
    \/ \E i \in 1..Len(mcr) : McrReset(i)
    \/ \E w \in markReads : MarkMessageAsReadWrite(w)
    \/ StartConversation
    \/ \E u \in Users : GocRead(u)
    \/ \E u \in Users : GocCreate(u)
    \/ (msgCount < MaxUnreadMsgs /\ ContextSendMessage(HelloText, FALSE))
    \/ \E u \in Users : SendWriteMessage(u)
    \/ \E u \in Users : SendWriteConversation(u)
    \/ \E m \in DOMAIN msgs :
          /\ ReadMarksSettled
          /\ msgs[m].conversationId = selectedConversation
          /\ ContextEditMessage(m)
    \/ \E m \in DOMAIN msgs :
          /\ ReadMarksSettled
          /\ msgs[m].conversationId = selectedConversation
          /\ ContextDeleteMessage(m)

\* nothing has been stored yet
InitUnread ==
    /\ InitContext
    /\ IdleIdInputs
    /\ clock = 0
    /\ convs = EmptyFn
    /\ msgs = EmptyFn
    /\ msgCount = 0
    /\ conversationUsers = {}
    /\ NoTyping
    /\ IdleCalls

SpecUnread == InitUnread /\ [][NextUnread]_vars

\* a device on which the conversation is opened
SpecRead == InitRead /\ [][NextSession]_vars

(***************************************************************************)
(* Properties of the repository                                            *)
(***************************************************************************)
ConversationsOfPair ==
    {id \in DOMAIN convs :
        {convs[id].participants[1], convs[id].participants[2]} = Users}

\* C1: when both users call getOrCreateConversation for each other
\* concurrently, neither call fails and, once a call has returned, the store
\* holds exactly one conversation document of the pair
C1_ExactlyOneConversation ==
    /\ \A u \in Users : goc[u].pc # "failed"
    /\ (\E u \in Users : goc[u].pc = "done") => Cardinality(ConversationsOfPair) = 1

\* both calls read the document as absent, both wrote it, both returned
C1_Witness ==
    \A u \in Users : goc[u].pc = "done" /\ goc[u].path = "created"

\* C2: the conversation id of (A, B) equals the id of (B, A), and
\* createConversationId, createConversation and getOrCreateConversation
\* compute the same id
C2_IdOrderIndependent ==
    idResult.computed =>
        /\ idResult.util = idResult.utilSwapped
        /\ idResult.create = idResult.createSwapped
        /\ idResult.getOrCreate = idResult.getOrCreateSwapped
        /\ idResult.util = idResult.create
        /\ idResult.util = idResult.getOrCreate

\* the ids were computed for a pair given in descending order
C2_Witness ==
    /\ idResult.computed
    /\ StrLess(userId2, userId1)
    /\ idResult.util = userId2 \o Underscore \o userId1

\* C3: once a sendMessage has completed and none is in flight, the
\* conversation's lastMessageTimestamp is at least the timestamp of every
\* message of its sub-collection
C3_LastTimestampCoversMessages ==
    ( /\ \E u \in Users : send[u].pc = "done"
      /\ \A u \in Users : send[u].pc # "writing"
      /\ \A u \in Users : goc[u].pc \in {"idle", "done"} ) =>
        \A m \in DOMAIN msgs :
            convs[msgs[m].conversationId].lastMessage # NoMsg =>
                convs[msgs[m].conversationId].lastMessageTimestamp >= msgs[m].timestamp

\* C4: every list subscribeToUserConversations passes to its callback is
\* sorted by descending lastMessageTimestamp and holds no archived
\* conversation and none whose deletedBy contains the subscribed user
C4_DeliveredSortedAndFiltered ==
    delivered.called =>
        /\ \A i \in 1..Len(delivered.list) :
              /\ ~delivered.list[i].isArchived
              /\ snapUser \notin delivered.list[i].deletedBy
        /\ \A i, j \in 1..Len(delivered.list) :
              i < j => delivered.list[i].lastMessageTimestamp
                           >= delivered.list[j].lastMessageTimestamp

\* a snapshot with a document deleted by the user, of which two documents
\* were delivered in another order than the snapshot's
C4_Witness ==
    /\ delivered.called
    /\ \E i \in 1..Len(snapDocs) :
          ~snapDocs[i].isArchived /\ snapUser \in snapDocs[i].deletedBy
    /\ Len(delivered.list) = 2
    /\ delivered.list[1].id > delivered.list[2].id

(***************************************************************************)
(* Properties of the context                                               *)
(***************************************************************************)
OpenLoads == {i \in 1..Len(loads) : loads[i].sub = "open"}

OpenMsgSubs == {i \in 1..Len(msgSubs) : msgSubs[i].status = "open"}

\* C5: at any time at most one conversation-list subscription and at most
\* one messages subscription is open, and it is the one opened last: every
\* subscription opened before it has been unsubscribed
C5_AtMostOneSubscription ==
    /\ Cardinality(OpenLoads) <= 1
    /\ Cardinality(OpenMsgSubs) <= 1
    /\ \A i \in OpenLoads : i = Len(loads)
    /\ \A i \in OpenMsgSubs : i = Len(msgSubs)

\* a second conversation-list subscription and a second messages
\* subscription, for another conversation, are open after the first ones
C5_Witness ==
    /\ Len(loads) = 2
    /\ loads[2].sub = "open"
    /\ Len(msgSubs) = 2
    /\ msgSubs[2].status = "open"
    /\ msgSubs[1].conv # msgSubs[2].conv

\* C6: whenever the messages effect sees no conversation (none selected, or
\* no user signed in), messages is empty and no messages subscription is open
C6_IdleHasNoMessages ==
    (selectedConversation = NoConv \/ user = NoUser) =>
        /\ messages = <<>>
        /\ OpenMsgSubs = {}
        /\ messagesUnsubscribeRef = 0

\* signed out with a conversation still selected whose subscription had
\* delivered its messages
C6_Witness ==
    /\ user = NoUser
    /\ selectedConversation = CreateConversationDocId(UserA, UserB)
    /\ \E i \in 1..Len(msgSubs) :
          msgSubs[i].conv = selectedConversation /\ msgSubs[i].delivered

\* C7: conversationsLoading always becomes false again; a run of the effect
\* whose 5 s timer found no data has issued the manual fetch, and the 15 s
\* timer of a run without data sets conversations to the empty list and
\* conversationsLoading to false
C7_LoadingEnds ==
    /\ conversationsLoading ~> ~conversationsLoading
    /\ [](\A i \in 1..Len(loads) :
            /\ (loads[i].manualFetchTimeout = "fired" /\ ~loads[i].hasReceivedData)
                  => loads[i].fetch # "idle"
            /\ (loads[i].initialLoadTimeout = "fired" /\ loads[i].isSubscribed)
                  => ~conversationsLoading)
    /\ [][\A i \in 1..Len(loads) :
            (InitialLoadTimeout(i) /\ ~loads[i].hasReceivedData)
                => (conversations' = <<>> /\ ~conversationsLoading')]_vars

\* the 15 s timer of a run fired while its manual fetch was still in flight
C7_Witness ==
    \E i \in 1..Len(loads) :
        /\ loads[i].initialLoadTimeout = "fired"
        /\ ~loads[i].hasReceivedData
        /\ loads[i].fetch = "inflight"
        /\ conversations = <<>>
        /\ ~conversationsLoading

\* C8: once the conversation-list subscription of the current run of the
\* effect has reported an error, the manual fetch of that run has been issued
C8_ErrorTriggersManualFetch ==
    \A i \in 1..Len(loads) :
        (loads[i].sub = "errored" /\ loads[i].isSubscribed) => loads[i].fetch # "idle"

\* C9: a sendMessage of the context with empty text and no media, or with no
\* conversation selected, is rejected, and no message without text and media
\* is written or on its way to the store
C9_InvalidSendRejected ==
    /\ (lastCall.op = "sendMessage" /\ (lastCall.empty \/ ~lastCall.selected))
          => lastCall.outcome = "rejected"
    /\ \A u \in Users :
          send[u].pc = "writing" => (send[u].msg.text # EmptyText \/ send[u].msg.hasMedia)
    /\ \A m \in DOMAIN msgs : msgs[m].text # EmptyText \/ msgs[m].hasMedia

\* C10: an editMessage or deleteMessage of the context on a message whose
\* senderId is not the current user's id is rejected and writes nothing
C10_ForeignWriteRejected ==
    (lastCall.op \in {"editMessage", "deleteMessage"} /\ ~lastCall.own)
        => lastCall.outcome = "rejected"

\* C11: every message sent through the context, written or on its way to the
\* store, carries the profile of its own sender: the profile cached for a user
\* who signed out is never used for the user who signed in after
C11_SenderProfileIsSenders ==
    /\ \A m \in DOMAIN msgs : msgs[m].senderName = msgs[m].senderId
    /\ \A u \in Users :
          send[u].pc = "writing" => send[u].msg.senderName = send[u].msg.senderId

DeliveredIds == {delivered.list[i].id : i \in 1..Len(delivered.list)}

\* C12: a list delivered to a user's subscribeToUserConversations after the
\* user's deleteConversation(id, user) completed omits the conversation, a
\* list delivered then to the other participant, who never called
\* deleteConversation, contains it, and the conversation document and its
\* messages still exist
C12_DeletedHiddenForDeleterOnly ==
    /\ \A u \in Users : \A id \in DeletedBy(u) :
          /\ id \in DOMAIN convs
          /\ msgCount > 0 => MessagesOf(id) # {}
    /\ delivered.called =>
          \A u \in Users :
              (delivered.calls[u].pc = "done"
                  /\ delivered.calls[u].name = "deleteConversation") =>
                  /\ snapUser = u => delivered.calls[u].id \notin DeliveredIds
                  /\ (snapUser # u /\ delivered.calls[snapUser].pc = "idle")
                        => delivered.calls[u].id \in DeliveredIds

\* C13: the markConversationAsRead fired when a user opens the conversation
\* does not fail, and once it has ended the conversation's unreadCount is 0
\* and every message of the conversation has a readBy entry of that user
C13_OpenMarksAllRead ==
    \A i \in 1..Len(mcr) :
        /\ mcr[i].pc # "failed"
        /\ mcr[i].pc = "done" =>
              /\ convs[msgSubs[i].conv].unreadCount = 0
              /\ \A m \in MessagesOf(msgSubs[i].conv) :
                    msgSubs[i].uid \in DOMAIN msgs[m].readBy

\* UserB opened the conversation holding the three messages of UserA and the
\* markConversationAsRead it fired has ended
C13_Witness ==
    \E i \in 1..Len(mcr) :
        /\ mcr[i].pc = "done"
        /\ msgSubs[i].uid = UserB
        /\ Cardinality(MessagesOf(msgSubs[i].conv)) = 3
        /\ \A m \in MessagesOf(msgSubs[i].conv) : msgs[m].senderId = UserA

\* the snapshot was delivered when UserA's getOrCreateConversation and
\* UserA's sendMessage had returned and no other message had been sent
DeliveredAfterHello ==
    /\ delivered.called
    /\ delivered.goc[UserA].pc = "done"
    /\ delivered.send[UserA].pc = "done"
    /\ delivered.send[UserB].pc = "idle"
    /\ delivered.msgCount = 1

\* C14: once startConversation's getOrCreateConversation has returned to A the
\* conversation has participantDetails of A and B, and a snapshot delivered to
\* a listener of its messages after A's one sendMessage("h") returned holds
\* exactly one message: text "h", senderId A, isRead false, no readBy of B
C14_HelloDeliveredUnread ==
    /\ goc[UserA].pc = "done" =>
          /\ goc[UserA].id \in DOMAIN convs
          /\ convs[goc[UserA].id].hasDetails
          /\ convs[goc[UserA].id].details = {UserA, UserB}
    /\ DeliveredAfterHello =>
          /\ Len(delivered.list) = 1
          /\ delivered.list[1].text = HelloText
          /\ delivered.list[1].senderId = UserA
          /\ ~delivered.list[1].isRead
          /\ UserB \notin DOMAIN delivered.list[1].readBy

\* the conversation was created by A's call and the snapshot holds A's message
C14_Witness ==
    /\ DeliveredAfterHello
    /\ delivered.goc[UserA].path = "created"
    /\ Len(delivered.list) = 1

\* C15: once getOrCreateConversation has created the absent document,
\* collection conversationUsers holds a document for each of the two
\* participants of the conversation
C15_CreationInitializesUserMeta ==
    \A u \in Users :
        (goc[u].pc = "done" /\ goc[u].path = "created") =>
            \A p \in {u, goc[u].other} : <<p, goc[u].id>> \in conversationUsers

\* the step is the commit of u's clearConversationMessages
ClearCommitted(u) ==
    /\ repoCall[u].pc = "commit"
    /\ repoCall[u].name = "clearConversationMessages"
    /\ repoCall'[u].pc = "done"

\* C16: when clearConversationMessages(id) commits, the conversation's
\* lastMessage is null and none of the N message documents it read is left;
\* the sub-collection is empty when it held those N documents
C16_ClearLeavesNoMessages ==
    [][\A u \in Users :
          ClearCommitted(u) =>
              LET id == repoCall[u].id
              IN /\ convs'[id].lastMessage = NoMsg
                 /\ repoCall[u].docs \cap DOMAIN msgs' = {}
                 /\ MessagesOf(id) = repoCall[u].docs =>
                       {m \in DOMAIN msgs' : msgs'[m].conversationId = id} = {}]_vars

\* a call that read two messages has completed, and the conversation has no
\* message and no lastMessage
C16_Witness ==
    \E u \in Users :
        /\ repoCall[u].pc = "done"
        /\ repoCall[u].name = "clearConversationMessages"
        /\ Cardinality(repoCall[u].docs) = 2
        /\ MessagesOf(repoCall[u].id) = {}
        /\ convs[repoCall[u].id].lastMessage = NoMsg

\* C17: a message whose deletedAt is set has the tombstone as its text, the
\* message list renders the tombstone for it, and the conversation list
\* renders the tombstone as the preview of a conversation whose last message
\* it is
C17_DeletedTextNeverRendered ==
    /\ \A m \in DOMAIN msgs :
          IsMessageDeleted(msgs[m]) =>
              /\ msgs[m].text = Tombstone
              /\ RenderMessage(msgs[m]) = Tombstone
              /\ \A id \in DOMAIN convs :
                    convs[id].lastMessage = m =>
                        ConversationPreview(convs[id]) = Tombstone
    /\ \A i \in 1..Len(messages) :
          IsMessageDeleted(messages[i]) => RenderMessage(messages[i]) = Tombstone

\* the ids of the messages query of a conversation, in its order
QueryIds(conversationId) ==
    LET q == QueryConversationMessages(conversationId, PageSize)
    IN [i \in 1..Len(q) |-> q[i].id]

\* the step is an editMessage that reached message m, not a commit of
\* markConversationAsRead
Edited(m) ==
    /\ msgs' # msgs
    /\ mcr' = mcr
    /\ lastCall'.op = "editMessage"
    /\ lastCall'.outcome = "issued"
    /\ msgs'[m] # msgs[m]

\* C18: an editMessage sets the message's text to the new text and its editedAt
\* to the time of the edit, leaves its timestamp, senderId and readBy and every
\* other message as they were, and leaves the order of the messages query as
\* it was
C18_EditKeepsPosition ==
    [][\A m \in DOMAIN msgs :
          Edited(m) =>
              /\ msgs'[m].text = EditedText
              /\ msgs'[m].editedAt = clock
              /\ msgs'[m].timestamp = msgs[m].timestamp
              /\ msgs'[m].senderId = msgs[m].senderId
              /\ msgs'[m].readBy = msgs[m].readBy
              /\ \A o \in DOMAIN msgs \ {m} : msgs'[o] = msgs[o]
              /\ QueryIds(msgs[m].conversationId)' = QueryIds(msgs[m].conversationId)]_vars

\* the subscriber's list shows the new text of an edited message at the second
\* of three positions, where the message was sent
C18_Witness ==
    /\ lastCall.op = "editMessage"
    /\ lastCall.outcome = "issued"
    /\ Len(messages) = 3
    /\ messages[2].id = 2
    /\ messages[2].text = EditedText
    /\ messages[2].editedAt # NoTime
    /\ messages[2].timestamp = SentMessages[2].timestamp

\* C19: when the listener has been delivered every change of the store, the
\* list it reported holds no typing indicator older than 5 seconds
C19_StaleIndicatorNotReported ==
    (typingSub.open /\ ~typingSub.pending) =>
        \A w \in DOMAIN typingUsers : clock - typingUsers[w] <= TypingMaxAge

\* the step re-runs the conversations effect
ConversationsEffectRuns == user' # user \/ forceRefresh' # forceRefresh

\* C20: a step of a run of the conversations effect that has been cleaned up
\* (a timer, the return or the failure of its manual fetch, a callback of its
\* subscription) leaves conversations, conversationsLoading and
\* conversationsError as they are, and any step that changes one of them is a
\* run of the effect or happens while the current user's run is subscribed
C20_TornDownLoadIsSilent ==
    [][/\ \A i \in 1..Len(loads) :
             (~loads[i].isSubscribed /\ loads'[i] # loads[i]) =>
                 UNCHANGED convStateVars
       /\ (convStateVars' # convStateVars /\ ~ConversationsEffectRuns) =>
             \E i \in 1..Len(loads) : loads[i].isSubscribed /\ loads[i].uid = user]_vars

\* the manual fetch of a run returned after the run was cleaned up
C20_Witness ==
    \E i \in 1..Len(loads) :
        /\ ~loads[i].isSubscribed
        /\ loads[i].fetch = "returned"
        /\ ~loads[i].hasReceivedData

\* C21: every run of the messages effect that subscribes has exactly one
\* markConversationAsRead call, and that call has been made only if the first
\* snapshot of the run's subscription has been delivered
C21_MarkReadFiredOnFirstSnapshot ==
    /\ Len(mcr) = Len(msgSubs)
    /\ \A i \in 1..Len(mcr) : msgSubs[i].delivered

\* C22: when the conversation write of a sendMessage is rejected the
\* conversation keeps its lastMessage and lastMessageTimestamp, and once the
\* call has thrown after its message write succeeded the message document is
\* in the store and is not the conversation's lastMessage
C22_PartialSendKeepsMessage ==
    [][\A u \in Users :
          /\ (send[u].pc = "writing" /\ "conversation" \in send[u].pending
                 /\ send'[u].pc = "failed") =>
                /\ convs'[send[u].conv].lastMessage = convs[send[u].conv].lastMessage
                /\ convs'[send[u].conv].lastMessageTimestamp
                       = convs[send[u].conv].lastMessageTimestamp
          /\ send'[u].pc = "failed" =>
                /\ send'[u].msg.id \in DOMAIN msgs'
                /\ convs'[send'[u].conv].lastMessage # send'[u].msg.id]_vars

\* a sendMessage has thrown: its message is stored and the conversation still
\* has no lastMessage
C22_Witness ==
    \E u \in Users :
        /\ send[u].pc = "failed"
        /\ send[u].msg.id \in DOMAIN msgs
        /\ convs[send[u].conv].lastMessage = NoMsg

\* C23: the mark-as-read writes of the message list stop once they have taken
\* effect: no markAsRead is issued for a message that the delivered list
\* already shows as read by the user
C23_MarkReadWritesStop ==
    \A w \in markReads : ~w.again

\* C24: a snapshot of the messages query delivered when the sendMessage calls
\* have returned holds every message they sent, however many messages the
\* conversation held before
C24_SentMessageDelivered ==
    (/\ delivered.called
     /\ \A u \in Users : delivered.send[u].pc \in {"idle", "done"}) =>
        \A m \in 1..delivered.msgCount :
            \E k \in 1..Len(delivered.list) : delivered.list[k].id = m

\* C25: every message of the messages state belongs to the selected
\* conversation
C25_MessagesOfSelectedOnly ==
    \A k \in 1..Len(messages) : messages[k].conversationId = selectedConversation

\* C26: while no conversation is selected messagesLoading is false
C26_NotLoadingWithoutSelection ==
    selectedConversation = NoConv => ~messagesLoading

\* C27: the conversations state holds no conversation that the signed-in
\* user has deleted
C27_NoDeletedConversationListed ==
    \A k \in 1..Len(conversations) : user \notin conversations[k].deletedBy

\* C28: when no getOrCreateConversation and no sendMessage is in flight, a
\* conversation that holds a sent message still has the lastMessage and the
\* lastMessageTimestamp that a sendMessage wrote
C28_SummaryNotOverwritten ==
    ( /\ \A u \in Users : send[u].pc # "writing"
      /\ \A u \in Users : goc[u].pc \in {"idle", "done"} ) =>
        \A id \in DOMAIN convs :
            MessagesOf(id) # {} =>
                /\ convs[id].lastMessage \in MessagesOf(id)
                /\ convs[id].lastMessageTimestamp = msgs[convs[id].lastMessage].timestamp

====
